---------------------------- MODULE Spec2Model ----------------------------
(* Model of the ingestion pipeline of the jurisprudencia scraper           *)
(* (src/main.js, class JurisprudenciaScraper, and the Express handler      *)
(* GET /run-scraper) running against the table jurisprudencia_cs           *)
(* (src/unnamed/part_000).                                                 *)
(*                                                                         *)
(* One action is one suspension point (await of network I/O) of run()      *)
(* together with the synchronous code that follows it up to the next       *)
(* suspension point.  The store is shared by all runs; everything else is  *)
(* an instance field of the scraper the request created.                   *)
(*                                                                         *)
(* The insert of saveSentenceToSupabase names columns (caratulado,         *)
(* enlace, embeddings, ...) that the CREATE TABLE of part_000 does not     *)
(* declare.  The table is modelled with the columns the code inserts, the  *)
(* UNIQUE constraint on rol and the BEFORE INSERT trigger on               *)
(* hash_contenido of part_000.                                             *)
EXTENDS Naturals, Sequences, FiniteSets, TLC

(***************************************************************************)
(* Bounds and input domains                                                *)
(***************************************************************************)

\* The most result rows the court site serves for a search.
MaxResultados == 2

\* config.maxSentencias (default): executeSearch returns at most this many.
MaxSentencias == 100

\* The overlapping /run-scraper requests, each with its own scraper.
Runs == {1, 2}

\* The items extractResultsFromPage can return (a missing cell is ''): a
\* complete row, and a row of another rol with neither caratulado nor
\* detail link.
Resultado ==
    { [rol |-> "A", caratulado |-> "c", enlace |-> "u"],
      [rol |-> "B", caratulado |-> "",  enlace |-> ""] }

Rols == {res.rol : res \in Resultado}

\* The result rows of a page as the selectors of extractResultsFromPage
\* read them (a cell that is missing reads ''): the rows behind Resultado.
Elementos ==
    { [rol |-> "A", fecha |-> "15/03/2024", tribunal |-> "CS", caratulado |-> "c", enlace |-> "u"],
      [rol |-> "B", fecha |-> "", tribunal |-> "", caratulado |-> "", enlace |-> ""] }

\* Rows as above, one of them without a rol cell, and a row with no rol,
\* fecha or tribunal cell at all.
ElementosSinRol ==
    { [rol |-> "A", fecha |-> "15/03/2024", tribunal |-> "CS", caratulado |-> "c", enlace |-> "u"],
      [rol |-> "", fecha |-> "15/03/2024", tribunal |-> "", caratulado |-> "", enlace |-> ""],
      [rol |-> "", fecha |-> "", tribunal |-> "", caratulado |-> "c", enlace |-> ""] }

\* Values of Date.now() while a page is evaluated.
Relojes == {1, 2}

\* What page.evaluate extracts from a detail page: a full page and a page
\* with the text only.  (A page on which no selector matches leaves the
\* sentencia with the same fields as a fetch that fails.)
Paginas ==
    { [texto_completo |-> "t", considerandos |-> "k", resolucion |-> "f"],
      [texto_completo |-> "t", considerandos |-> "",  resolucion |-> ""] }

VARIABLES
    env,         \* process.env: which variables are set
    sitio,       \* the result rows the court site serves for the search
    store,       \* rows of jurisprudencia_cs, in insertion order
    pc,          \* per run: the suspension point run() is at
    supabase,    \* per run: this.supabase is not null
    openai,      \* per run: this.openai is not null
    browser,     \* per run: this.browser ("null", "open", "closed")
    stats,       \* per run: this.stats
    resultados,  \* per run: the list processResults iterates over
    i,           \* per run: loop variable of processResults
    sentencia,   \* per run: the sentencia of the record being processed
    calls,       \* per run: external calls made for the current record
    error,       \* per run: run() has thrown
    reported,    \* per run: printFinalStats has written the summary
    response,    \* per run: HTTP status sent by the handler
    sinPausa,    \* per run: a detail page was fetched and no delay() ran since
    entrada,     \* input of the pure function under check (else <<>>)
    salida       \* its result (<<>> before it is applied)

vars == <<env, sitio, store, pc, supabase, openai, browser, stats, resultados, i,
          sentencia, calls, error, reported, response, sinPausa, entrada, salida>>

(***************************************************************************)
(* Pure helpers                                                            *)
(***************************************************************************)

\* crypto.createHash('sha256').update(s).digest('hex') and the SQL
\* encode(sha256(s::bytea), 'hex'): the same digest, taken as injective.
Sha256(s) == "sha256(" \o s \o ")"

\* contenidoParaHash of extractSentenceDetails.
ContenidoParaHash(s) == s.rol \o s.texto_completo \o s.considerandos

\* textoParaEmbedding of generateEmbeddings: the three fields joined by
\* single spaces, trimmed.  Each field is already trimmed, so the result is
\* empty exactly when all three are.
TextoParaEmbedding(s) ==
    IF s.caratulado = "" /\ s.considerandos = "" /\ s.resolucion = ""
    THEN ""
    ELSE s.caratulado \o " " \o s.considerandos \o " " \o s.resolucion

RECURSIVE SeqsUpTo(_, _)
SeqsUpTo(S, n) ==
    IF n = 0 THEN {<<>>}
    ELSE LET shorter == SeqsUpTo(S, n - 1)
         IN  shorter \cup {Append(q, x) : q \in {p \in shorter : Len(p) = n - 1}, x \in S}

\* items.push of extractResultsFromPage: a row with a rol, fecha or
\* tribunal cell becomes an item; a missing rol is replaced by a key made
\* of the clock and the row's index.  (The item's fecha and tribunal are
\* not carried further in this model: see ProcessFecha.)
Item(el, now, index) ==
    [rol |-> IF el.rol # "" THEN el.rol
             ELSE "ROL-" \o ToString(now) \o "-" \o ToString(index),
     caratulado |-> el.caratulado,
     enlace |-> el.enlace]

\* The guard of items.push.
Guardado(el) == el.rol # "" \/ el.fecha # "" \/ el.tribunal # ""

RECURSIVE ItemsDesde(_, _, _)
ItemsDesde(elementos, now, k) ==
    IF k > Len(elementos) THEN <<>>
    ELSE (IF Guardado(elementos[k]) THEN <<Item(elementos[k], now, k - 1)>> ELSE <<>>)
         \o ItemsDesde(elementos, now, k + 1)

\* extractResultsFromPage(): elementos.forEach((elemento, index) => ...).
ExtractResultsFromPage(elementos, now) == ItemsDesde(elementos, now, 1)

\* resultados.slice(0, n)
Slice(s, n) == IF Len(s) <= n THEN s ELSE SubSeq(s, 1, n)

\* Value of the local variable sentencia while no record is in progress.
NoSentencia ==
    [rol |-> "", caratulado |-> "", enlace |-> "", texto_completo |-> "",
     considerandos |-> "", resolucion |-> "", hash_contenido |-> "",
     embeddings |-> "null"]

\* The object literal extractSentenceDetails starts from.
NuevaSentencia(res) ==
    [rol |-> res.rol, caratulado |-> res.caratulado, enlace |-> res.enlace,
     texto_completo |-> "", considerandos |-> "", resolucion |-> "",
     hash_contenido |-> "", embeddings |-> "null"]

\* sentencia = { ...sentencia, ...detalles }
ConDetalles(s, d) ==
    [s EXCEPT !.texto_completo = d.texto_completo,
              !.considerandos = d.considerandos,
              !.resolucion = d.resolucion]

\* The catch of extractSentenceDetails: the failure is logged and the
\* sentencia is left as it was built from the result list.
DetallesPerdidos(s) == NoSentencia
SinDetalles(s) == s

\* generateEmbeddings: the vector is assigned only after the provider
\* answered; on a failure the catch logs and embeddings stays null.
ConEmbeddingsSiempre(s, ok) == [s EXCEPT !.embeddings = "vector"]
ConEmbeddings(s, ok) == [s EXCEPT !.embeddings = IF ok THEN "vector" ELSE @]

\* The hash step that ends extractSentenceDetails.
ConHash(s) == [s EXCEPT !.hash_contenido = Sha256(ContenidoParaHash(s))]

StatsInicial == [total_procesadas |-> 0, exitosas |-> 0, duplicadas |-> 0, errores |-> 0]

\* this.stats.total_procesadas++ at the head of the loop body.
ProcesadaSinContar(st) == st
Procesada(st) == [st EXCEPT !.total_procesadas = @ + 1]

\* this.stats.duplicadas++ on a hit of the existence check.
DuplicadaComoError(st) == [st EXCEPT !.duplicadas = @ + 1, !.errores = @ + 1]
Duplicada(st) == [st EXCEPT !.duplicadas = @ + 1]

\* this.stats.exitosas++ after saveSentenceToSupabase returned.
ExitosaSinContar(st) == st
Exitosa(st) == [st EXCEPT !.exitosas = @ + 1]

\* The catch of processResults: this.stats.errores++, then the next result.
CatchAborta(st, n, len) == [stats |-> [st EXCEPT !.errores = @ + 1], i |-> len]
Catch(st, n, len) == [stats |-> [st EXCEPT !.errores = @ + 1], i |-> n + 1]

(***************************************************************************)
(* The store: table jurisprudencia_cs                                      *)
(***************************************************************************)

\* select('rol').eq('rol', rol).limit(1) returns a row.
ExisteEnStore(rol) == \E k \in 1..Len(store) : store[k].rol = rol

\* trigger_actualizar_hash_contenido: BEFORE INSERT, sets NEW.hash_contenido.
ActualizarHashContenido(row) ==
    [row EXCEPT !.hash_contenido = Sha256(row.texto_completo)]

\* The UNIQUE constraint on rol accepts the new row.
RolSinRestriccion(row) == TRUE
RolUnique(row) == ~ExisteEnStore(row.rol)

\* The row of the insert of saveSentenceToSupabase.
FilaDe(s) == s

\* The table after an accepted insert of row.
StoreSobrescribe(row) ==
    IF store = <<>> THEN <<ActualizarHashContenido(row)>>
    ELSE [store EXCEPT ![Len(store)] = ActualizarHashContenido(row)]
StoreInsert(row) == Append(store, ActualizarHashContenido(row))

(***************************************************************************)
(* processSingleResult: where the synchronous code after an await stops    *)
(***************************************************************************)

\* Lines 385-392: save when a store is configured, else only log.
TrasEmbeddings(r) == IF supabase[r] THEN "insert" ELSE "delay"

\* Lines 380-383 with the empty-text return of generateEmbeddings (542-545):
\* the provider is called only when enabled and the text is not empty.
TrasExtractSinTexto(r, s) == IF env.EMBEDDINGS /\ openai[r] THEN "embed" ELSE TrasEmbeddings(r)
TrasExtract(r, s) ==
    IF env.EMBEDDINGS /\ openai[r] /\ TextoParaEmbedding(s) # ""
    THEN "embed"
    ELSE TrasEmbeddings(r)

\* extractSentenceDetails up to its first await: a record with a detail
\* link suspends at page.goto, one without goes straight to the hash.
EmpiezaExtract(r, res) ==
    IF res.enlace # ""
    THEN [pc |-> "goto", sentencia |-> NuevaSentencia(res)]
    ELSE [pc |-> TrasExtract(r, ConHash(NuevaSentencia(res))),
          sentencia |-> ConHash(NuevaSentencia(res))]

\* What checkDuplicateByRol returns: the query's answer, false on an error.
ExisteSiFalla(rol, queryOk) == ~queryOk \/ ExisteEnStore(rol)
ExisteNunca(rol, queryOk) == FALSE
Existe(rol, queryOk) == queryOk /\ ExisteEnStore(rol)

Actual(r) == resultados[r][i[r] + 1]

(***************************************************************************)
(* Init                                                                    *)
(***************************************************************************)

\* The fields of every scraper object after its constructor.
Construido ==
    /\ store = <<>>
    /\ pc = [r \in Runs |-> "idle"]
    /\ supabase = [r \in Runs |-> FALSE]
    /\ openai = [r \in Runs |-> FALSE]
    /\ browser = [r \in Runs |-> "null"]
    /\ stats = [r \in Runs |-> StatsInicial]
    /\ resultados = [r \in Runs |-> <<>>]
    /\ i = [r \in Runs |-> 0]
    /\ sentencia = [r \in Runs |-> NoSentencia]
    /\ calls = [r \in Runs |-> <<>>]
    /\ error = [r \in Runs |-> FALSE]
    /\ reported = [r \in Runs |-> FALSE]
    /\ response = [r \in Runs |-> "none"]
    /\ sinPausa = [r \in Runs |-> FALSE]

\* The state after construction, the site serving one of listas.
InitCon(listas) ==
    /\ env \in [SUPABASE : BOOLEAN, EMBEDDINGS : BOOLEAN]
    /\ sitio \in listas
    /\ Construido
    /\ entrada = <<>>
    /\ salida = <<>>

\* The state in which a pure function is applied to one of entradas: no
\* run of the scraper is in progress.
InitPura(entradas) ==
    /\ env = [SUPABASE |-> FALSE, EMBEDDINGS |-> FALSE]
    /\ sitio = <<>>
    /\ Construido
    /\ entrada \in entradas
    /\ salida = <<>>

Quieto ==
    UNCHANGED <<env, sitio, store, pc, supabase, openai, browser, stats, resultados, i,
                sentencia, calls, error, reported, response, sinPausa>>

Init == InitCon(SeqsUpTo(Elementos, MaxResultados))

(***************************************************************************)
(* run(): startup                                                          *)
(***************************************************************************)

\* app.get('/run-scraper'): new JurisprudenciaScraper(), then run() starts.
RunScraper(r) ==
    /\ pc[r] = "idle"
    /\ pc' = [pc EXCEPT ![r] = "initialize"]
    /\ UNCHANGED <<entrada, salida, sinPausa, env, sitio, store, supabase, openai, browser, stats, resultados, i,
                   sentencia, calls, error, reported, response>>

\* initialize(): the clients are created from the environment (a missing
\* credential only logs a warning), then the browser is launched.  launch
\* may throw (browser stays null); a later page call may throw with the
\* browser open.
Initialize(r) ==
    /\ pc[r] = "initialize"
    /\ supabase' = [supabase EXCEPT ![r] = env.SUPABASE]
    /\ openai' = [openai EXCEPT ![r] = env.EMBEDDINGS]
    /\ \E outcome \in {"ok", "launch_throws", "page_throws"} :
        /\ browser' = [browser EXCEPT ![r] = IF outcome = "launch_throws" THEN "null" ELSE "open"]
        /\ error' = [error EXCEPT ![r] = outcome # "ok"]
        /\ pc' = [pc EXCEPT ![r] = IF outcome = "ok" THEN "navigate" ELSE "finally"]
    /\ UNCHANGED <<entrada, salida, sinPausa, env, sitio, store, stats, resultados, i, sentencia, calls, reported, response>>

\* navigateToSearchPage(): goto and waitForSelector may time out.
NavigateToSearchPage(r) ==
    /\ pc[r] = "navigate"
    /\ \E ok \in BOOLEAN :
        /\ error' = [error EXCEPT ![r] = ~ok]
        /\ pc' = [pc EXCEPT ![r] = IF ok THEN "filters" ELSE "finally"]
    /\ UNCHANGED <<entrada, salida, sinPausa, env, sitio, store, supabase, openai, browser, stats, resultados, i,
                   sentencia, calls, reported, response>>

\* setupSearchFilters(): every failure is caught and logged.
SetupSearchFilters(r) ==
    /\ pc[r] = "filters"
    /\ pc' = [pc EXCEPT ![r] = "search"]
    /\ UNCHANGED <<entrada, salida, sinPausa, env, sitio, store, supabase, openai, browser, stats, resultados, i,
                   sentencia, calls, error, reported, response>>

\* executeSearch(): returns at most maxSentencias results, or rethrows.
ExecuteSearch(r) ==
    /\ pc[r] = "search"
    /\ \/ /\ \E now \in Relojes :
                resultados' = [resultados EXCEPT ![r] =
                                  Slice(ExtractResultsFromPage(sitio, now), MaxSentencias)]
          /\ pc' = [pc EXCEPT ![r] = "loop"]
          /\ UNCHANGED error
       \/ /\ error' = [error EXCEPT ![r] = TRUE]
          /\ pc' = [pc EXCEPT ![r] = "finally"]
          /\ UNCHANGED resultados
    /\ UNCHANGED <<entrada, salida, sinPausa, env, sitio, store, supabase, openai, browser, stats, i,
                   sentencia, calls, reported, response>>


(***************************************************************************)
(* processResults / processSingleResult                                    *)
(***************************************************************************)

\* The loop head of processResults and processSingleResult up to its first
\* await; after the last result, processResults returns to run().
ProcessResults(r) ==
    /\ pc[r] = "loop"
    /\ IF i[r] < Len(resultados[r])
       THEN /\ stats' = [stats EXCEPT ![r] = Procesada(@)]
            /\ calls' = [calls EXCEPT ![r] = <<>>]
            /\ IF supabase[r]
               THEN /\ pc' = [pc EXCEPT ![r] = "check"]
                    /\ UNCHANGED sentencia
               ELSE /\ pc' = [pc EXCEPT ![r] = EmpiezaExtract(r, Actual(r)).pc]
                    /\ sentencia' = [sentencia EXCEPT ![r] = EmpiezaExtract(r, Actual(r)).sentencia]
       ELSE /\ pc' = [pc EXCEPT ![r] = "stats"]
            /\ UNCHANGED <<stats, calls, sentencia>>
    /\ UNCHANGED <<entrada, salida, sinPausa, env, sitio, store, supabase, openai, browser, resultados, i,
                   error, reported, response>>

\* checkDuplicateByRol(resultado.rol) and what follows it: on a hit the
\* duplicate is counted and processSingleResult returns; otherwise
\* extractSentenceDetails starts.  A query error is logged and reads as
\* "not present".
CheckDuplicateByRol(r) ==
    /\ pc[r] = "check"
    /\ \E queryOk \in BOOLEAN :
        LET existe == Existe(Actual(r).rol, queryOk)
            answer == IF ~queryOk THEN "exists:error"
                      ELSE IF ExisteEnStore(Actual(r).rol) THEN "exists:hit"
                      ELSE "exists:miss"
        IN  /\ calls' = [calls EXCEPT ![r] = Append(@, answer)]
            /\ IF existe
               THEN /\ stats' = [stats EXCEPT ![r] = Duplicada(@)]
                    /\ pc' = [pc EXCEPT ![r] = "delay"]
                    /\ UNCHANGED sentencia
               ELSE /\ pc' = [pc EXCEPT ![r] = EmpiezaExtract(r, Actual(r)).pc]
                    /\ sentencia' = [sentencia EXCEPT ![r] = EmpiezaExtract(r, Actual(r)).sentencia]
                    /\ UNCHANGED stats
    /\ UNCHANGED <<entrada, salida, sinPausa, env, sitio, store, supabase, openai, browser, resultados, i,
                   error, reported, response>>

\* page.goto(resultado.enlace) and page.evaluate inside the try of
\* extractSentenceDetails: a failure is logged and the sentencia keeps the
\* data of the result list; then the hash is computed.
Goto(r) ==
    /\ pc[r] = "goto"
    /\ \/ \E d \in Paginas :
            LET s == ConHash(ConDetalles(sentencia[r], d))
            IN  /\ calls' = [calls EXCEPT ![r] = Append(@, "fetch:ok")]
                /\ sentencia' = [sentencia EXCEPT ![r] = s]
                /\ pc' = [pc EXCEPT ![r] = TrasExtract(r, s)]
       \/ LET s == ConHash(SinDetalles(sentencia[r]))
          IN  /\ calls' = [calls EXCEPT ![r] = Append(@, "fetch:error")]
              /\ sentencia' = [sentencia EXCEPT ![r] = s]
              /\ pc' = [pc EXCEPT ![r] = TrasExtract(r, s)]
    /\ sinPausa' = [sinPausa EXCEPT ![r] = TRUE]
    /\ UNCHANGED <<entrada, salida, env, sitio, store, supabase, openai, browser, stats, resultados, i,
                   error, reported, response>>

\* openai.embeddings.create inside the try of generateEmbeddings: a failure
\* is logged and the sentencia keeps embeddings: null.
GenerateEmbeddings(r) ==
    /\ pc[r] = "embed"
    /\ \E ok \in BOOLEAN :
        /\ calls' = [calls EXCEPT ![r] = Append(@, IF ok THEN "embed:ok" ELSE "embed:error")]
        /\ sentencia' = [sentencia EXCEPT ![r] = ConEmbeddings(@, ok)]
    /\ pc' = [pc EXCEPT ![r] = TrasEmbeddings(r)]
    /\ UNCHANGED <<entrada, salida, sinPausa, env, sitio, store, supabase, openai, browser, stats, resultados, i,
                   error, reported, response>>

\* saveSentenceToSupabase: the insert is one atomic statement of the store.
\* Accepted: exitosas++ and the delay follows.  Rejected (the UNIQUE
\* constraint, code 23505, or any other store error): the error is
\* rethrown to the catch of processResults, which counts it in errores and
\* goes on with the next result without the delay.
SaveSentenceToSupabase(r) ==
    /\ pc[r] = "insert"
    /\ \E storeOk \in BOOLEAN :
        LET row == FilaDe(sentencia[r])
            result == IF ~storeOk THEN "insert:error"
                      ELSE IF RolUnique(row) THEN "insert:ok" ELSE "insert:23505"
        IN  /\ calls' = [calls EXCEPT ![r] = Append(@, result)]
            /\ IF result = "insert:ok"
               THEN /\ store' = StoreInsert(row)
                    /\ stats' = [stats EXCEPT ![r] = Exitosa(@)]
                    /\ pc' = [pc EXCEPT ![r] = "delay"]
                    /\ UNCHANGED <<i, sentencia>>
               ELSE /\ stats' = [stats EXCEPT ![r] = Catch(@, i[r], Len(resultados[r])).stats]
                    /\ i' = [i EXCEPT ![r] = Catch(stats[r], @, Len(resultados[r])).i]
                    /\ sentencia' = [sentencia EXCEPT ![r] = NoSentencia]
                    /\ pc' = [pc EXCEPT ![r] = "loop"]
                    /\ UNCHANGED store
    /\ UNCHANGED <<entrada, salida, sinPausa, env, sitio, supabase, openai, browser, resultados,
                   error, reported, response>>

\* delay(delayBetweenRequests) after a record that did not throw, then i++.
Delay(r) ==
    /\ pc[r] = "delay"
    /\ i' = [i EXCEPT ![r] = @ + 1]
    /\ sentencia' = [sentencia EXCEPT ![r] = NoSentencia]
    /\ pc' = [pc EXCEPT ![r] = "loop"]
    /\ sinPausa' = [sinPausa EXCEPT ![r] = FALSE]
    /\ UNCHANGED <<entrada, salida, env, sitio, store, supabase, openai, browser, stats, resultados,
                   calls, error, reported, response>>

(***************************************************************************)
(* run(): the end                                                          *)
(***************************************************************************)

\* printFinalStats(): the last statement of the try block of run().
PrintFinalStats(r) ==
    /\ pc[r] = "stats"
    /\ reported' = [reported EXCEPT ![r] = TRUE]
    /\ pc' = [pc EXCEPT ![r] = "finally"]
    /\ UNCHANGED <<entrada, salida, sinPausa, env, sitio, store, supabase, openai, browser, stats, resultados, i,
                   sentencia, calls, error, response>>

\* if (this.browser) await this.browser.close() of the finally block.
CloseNunca(b) == b
Close(b) == IF b = "open" THEN "closed" ELSE b

\* What the handler of /run-scraper sends: 500 when run() rethrew.
Respuesta(thrown) == IF thrown THEN "500" ELSE "200"

\* The finally block of run() closes the browser if there is one; the
\* handler then answers 200, or 500 when run() rethrew.
Finally(r) ==
    /\ pc[r] = "finally"
    /\ browser' = [browser EXCEPT ![r] = Close(@)]
    /\ response' = [response EXCEPT ![r] = Respuesta(error[r])]
    /\ pc' = [pc EXCEPT ![r] = "done"]
    /\ UNCHANGED <<entrada, salida, sinPausa, env, sitio, store, supabase, openai, stats, resultados, i,
                   sentencia, calls, error, reported>>

Next ==
    \E r \in Runs :
        \/ RunScraper(r)
        \/ Initialize(r)
        \/ NavigateToSearchPage(r)
        \/ SetupSearchFilters(r)
        \/ ExecuteSearch(r)
        \/ ProcessResults(r)
        \/ CheckDuplicateByRol(r)
        \/ Goto(r)
        \/ GenerateEmbeddings(r)
        \/ SaveSentenceToSupabase(r)
        \/ Delay(r)
        \/ PrintFinalStats(r)
        \/ Finally(r)

Spec == Init /\ [][Next]_vars


(***************************************************************************)
(* Properties                                                              *)
(***************************************************************************)

Last(s) == s[Len(s)]

\* The rows of the store with a given rol.
Filas(rol) == {k \in 1..Len(store) : store[k].rol = rol}

\* The record the log calls[r] belongs to has been started / has ended.
EnCurso(r) == pc[r] \in {"check", "goto", "embed", "insert"}
Terminado(r) == calls[r] # <<>> /\ ~EnCurso(r)

\* The result the log calls[r] belongs to (i is incremented when it ends).
Ultimo(r) == IF pc[r] \in {"check", "goto", "embed", "insert", "delay"}
             THEN resultados[r][i[r] + 1]
             ELSE resultados[r][i[r]]

\* The step appends an entry to the log of run r.
Llama(r) == calls'[r] # calls[r] /\ calls'[r] # <<>>

\* C1: a record submitted with a configured store while its rol is already
\* stored (and whose attempt did not end in a store failure other than the
\* constraint) ends as a duplicate rejected by the existence check, and
\* the store holds exactly one record with that rol.
C1_SecondAttemptDuplicate ==
    \A r \in Runs :
        (/\ Terminado(r)
         /\ supabase[r]
         /\ ExisteEnStore(Ultimo(r).rol)
         /\ Last(calls[r]) \notin {"insert:ok", "insert:error"})
        => /\ Last(calls[r]) = "exists:hit"
           /\ Cardinality(Filas(Ultimo(r).rol)) = 1

\* C2: in every reachable state, whatever the interleaving of the runs'
\* existence checks and inserts, the store holds at most one record per rol.
C2_AtMostOnePerRol ==
    \A j, k \in 1..Len(store) : store[j].rol = store[k].rol => j = k

\* C2 witness: the race happened: a run's check missed, and its insert was
\* then rejected by the constraint because the other run had stored the rol.
C2_Witness ==
    \E r \in Runs :
        /\ calls[r] # <<>>
        /\ calls[r][1] = "exists:miss"
        /\ Last(calls[r]) = "insert:23505"

\* C3: an insert rejected by the uniqueness constraint on rol increments
\* duplicadas, does not increment errores and raises no error.
C3_ConstraintViolationIsDuplicate ==
    [][\A r \in Runs :
        (Llama(r) /\ Last(calls'[r]) = "insert:23505")
        => /\ stats'[r].duplicadas = stats[r].duplicadas + 1
           /\ stats'[r].errores = stats[r].errores
           /\ ~error'[r]]_vars

\* The existence check comes before the detail fetch and the embedding
\* call of the same record (with a store configured).
CheckPrimero(r) ==
    supabase[r] =>
        /\ pc[r] \in {"goto", "embed", "insert"} => calls[r] # <<>>
        /\ calls[r] # <<>> => calls[r][1] \in {"exists:hit", "exists:miss", "exists:error"}

\* C4 as stated: the check comes first, and the embedding provider is never
\* called for a record whose rol is in the store.
C4_NeverEmbedStored ==
    \A r \in Runs :
        /\ CheckPrimero(r)
        /\ pc[r] = "embed" => ~ExisteEnStore(sentencia[r].rol)

\* C4 amended: with a store configured, the check comes before the detail
\* fetch and the embedding call of a record, and neither is made for a
\* record whose check reported a hit.
C4_NeverEmbedAfterHit ==
    \A r \in Runs :
        /\ CheckPrimero(r)
        /\ (calls[r] # <<>> /\ calls[r][1] = "exists:hit")
           => /\ Len(calls[r]) = 1
              /\ pc[r] \notin {"goto", "embed", "insert"}

\* C4 witness: the provider was called for a record after its check missed.
C4_Witness ==
    \E r \in Runs : calls[r] = <<"exists:miss", "fetch:ok", "embed:ok">>

\* C5: the step on which the check reports a hit adds one to duplicadas and
\* changes nothing else (no other counter, not the store, no error), and the
\* record makes no further external call (no fetch, embedding or insert).
C5_HitOnlyCountsDuplicate ==
    [][\A r \in Runs :
        /\ (Llama(r) /\ Last(calls'[r]) = "exists:hit")
           => /\ stats'[r] = [stats[r] EXCEPT !.duplicadas = @ + 1]
              /\ store' = store
              /\ pc'[r] = "delay"
              /\ sentencia'[r] = NoSentencia
              /\ error'[r] = error[r]
        /\ (calls[r] # <<>> /\ calls[r][1] = "exists:hit")
           => /\ calls'[r] \in {calls[r], <<>>}
              /\ calls'[r] = calls[r] => stats'[r] = stats[r] /\ error'[r] = error[r]]_vars

\* C5 witness: a hit was counted and the record is at its delay.
C5_Witness ==
    \E r \in Runs :
        /\ calls[r] = <<"exists:hit">>
        /\ pc[r] = "delay"
        /\ stats[r].duplicadas = 1

\* C6: a record whose processing throws (a rejected insert) adds exactly one
\* to errores, run() does not throw, processResults goes on with the next
\* result, and when processResults returns every result has been processed.
C6_ErrorIsolated ==
    /\ [][\A r \in Runs :
            (Llama(r) /\ Last(calls'[r]) \in {"insert:error", "insert:23505"})
            => /\ stats'[r] = [stats[r] EXCEPT !.errores = @ + 1]
               /\ i'[r] = i[r] + 1
               /\ pc'[r] = "loop"
               /\ ~error'[r]]_vars
    /\ [](\A r \in Runs :
            pc[r] = "stats" => /\ stats[r].total_procesadas = Len(resultados[r])
                               /\ i[r] = Len(resultados[r]))

\* C6 witness: the first of two records failed and the second was stored.
C6_Witness ==
    \E r \in Runs :
        /\ pc[r] = "stats"
        /\ Len(resultados[r]) = 2
        /\ stats[r].errores = 1
        /\ stats[r].exitosas = 1
        /\ Last(calls[r]) = "insert:ok"

\* C7: every run that has finished has produced the final summary.
C7_SummaryAlwaysProduced ==
    \A r \in Runs : pc[r] = "done" => reported[r]

\* C8: no stored record has an empty texto_completo.
C8_NoEmptyTextStored ==
    \A k \in 1..Len(store) : store[k].texto_completo # ""

\* C9: without the store credentials the run fails at startup: it never
\* gets past initialize, processes no record and ends with an error.
C9_MissingCredentialsFatal ==
    \A r \in Runs :
        ~env.SUPABASE =>
            /\ pc[r] \in {"idle", "initialize", "finally", "done"}
            /\ stats[r].total_procesadas = 0
            /\ pc[r] = "done" => error[r]

\* C10: every stored record's hash_contenido is the digest of its own
\* rol + texto_completo + considerandos.
C10_StoredHashConsistent ==
    \A k \in 1..Len(store) :
        store[k].hash_contenido = Sha256(ContenidoParaHash(store[k]))



(***************************************************************************)
(* The content hash as a function of (rol, texto_completo, considerandos)  *)
(***************************************************************************)

Textos == {"", "a", "b", "ab"}

\* The three fields of a sentencia the hash step reads.
Contenidos == [rol : {"A", "AB"}, texto_completo : Textos, considerandos : Textos]

InitHash == InitPura(Contenidos \X Contenidos)

\* Lines 476-478 applied to two sentencias, one after the other.
Hash ==
    /\ salida = <<>>
    /\ salida' = <<Sha256(ContenidoParaHash(entrada[1])), Sha256(ContenidoParaHash(entrada[2]))>>
    /\ UNCHANGED entrada
    /\ Quieto

\* The same two sentencias hashed once more.
Rehash ==
    /\ Len(salida) = 2
    /\ salida' = salida \o <<Sha256(ContenidoParaHash(entrada[1])),
                              Sha256(ContenidoParaHash(entrada[2]))>>
    /\ UNCHANGED entrada
    /\ Quieto

NextHash == Hash \/ Rehash

SpecHash == InitHash /\ [][NextHash]_vars

\* C11: hashing the same input twice yields the same digest, and two
\* inputs with the same rol that differ in texto_completo or in
\* considerandos have different digests.
C11_HashDistinguishesTexts ==
    /\ Len(salida) = 4 => salida[3] = salida[1] /\ salida[4] = salida[2]
    /\ Len(salida) >= 2 =>
          ( /\ entrada[1].rol = entrada[2].rol
            /\ \/ entrada[1].texto_completo # entrada[2].texto_completo
               \/ entrada[1].considerandos # entrada[2].considerandos
            => salida[1] # salida[2] )


(***************************************************************************)
(* Result rows without a rol cell                                          *)
(***************************************************************************)

InitSinRol == InitCon(SeqsUpTo(ElementosSinRol, MaxResultados))

SpecSinRol == InitSinRol /\ [][Next]_vars

\* C12: a result row without a rol is an error and no record is stored for
\* it under any key: every stored record carries the rol of some row the
\* site served.
C12_NoRecordWithoutRol ==
    \A k \in 1..Len(store) : \E j \in 1..Len(sitio) : sitio[j].rol = store[k].rol

(***************************************************************************)
(* Failures of the embedding provider and of the detail fetch              *)
(***************************************************************************)

\* The log of the current record of run r holds the entry c.
Hizo(r, c) == \E k \in 1..Len(calls[r]) : calls[r][k] = c

\* C13: a failed embedding call leaves the counters and the run's error
\* state alone and the vector absent, the record goes on to the insert (to
\* the end of the record when no store is configured), and an accepted
\* insert of such a record stores it without vector and counts it in
\* exitosas only.
C13_EmbeddingFailureTolerated ==
    [][\A r \in Runs :
         /\ (Llama(r) /\ Last(calls'[r]) = "embed:error")
            => /\ sentencia'[r].embeddings = "null"
               /\ stats'[r] = stats[r]
               /\ error'[r] = error[r]
               /\ i'[r] = i[r]
               /\ pc'[r] = IF supabase[r] THEN "insert" ELSE "delay"
         /\ (Llama(r) /\ Last(calls'[r]) = "insert:ok" /\ Hizo(r, "embed:error"))
            => /\ stats'[r] = [stats[r] EXCEPT !.exitosas = @ + 1]
               /\ Last(store').embeddings = "null"
               /\ Last(store').rol = Actual(r).rol]_vars

\* C13 witness: the provider failed for a record and the record was stored.
C13_Witness ==
    \E r \in Runs :
        /\ calls[r] = <<"exists:miss", "fetch:ok", "embed:error", "insert:ok">>
        /\ stats[r].exitosas = 1
        /\ stats[r].errores = 0
        /\ Last(store).embeddings = "null"

\* C14: a failed detail fetch changes no counter and raises nothing in the
\* run; the record keeps the data of the result list (rol, caratulado,
\* enlace, no texts) and goes on to the remaining stages.
C14_FetchFailureConfined ==
    [][\A r \in Runs :
         (Llama(r) /\ Last(calls'[r]) = "fetch:error")
         => /\ sentencia'[r].rol = Actual(r).rol
            /\ sentencia'[r].caratulado = Actual(r).caratulado
            /\ sentencia'[r].enlace = Actual(r).enlace
            /\ sentencia'[r].texto_completo = ""
            /\ stats'[r] = stats[r]
            /\ error'[r] = error[r]
            /\ i'[r] = i[r]
            /\ pc'[r] \in {"embed", "insert", "delay"}]_vars

\* C14 witness: the fetch failed, the record was embedded from the list data
\* and stored.
C14_Witness ==
    \E r \in Runs :
        /\ calls[r] = <<"exists:miss", "fetch:error", "embed:ok", "insert:ok">>
        /\ Last(store).rol = "A"
        /\ Last(store).caratulado = "c"
        /\ Last(store).embeddings = "vector"
        /\ stats[r].exitosas = 1
        /\ stats[r].errores = 0

(***************************************************************************)
(* The delay between records                                               *)
(***************************************************************************)

\* C15: between two consecutive detail fetches of a run the delay elapses,
\* whatever the outcome of the record in between: no fetch is made while
\* an earlier fetch of the run has not been followed by delay().
C15_DelayBetweenFetches ==
    [][\A r \in Runs :
         (Llama(r) /\ Last(calls'[r]) \in {"fetch:ok", "fetch:error"}) => ~sinPausa[r]]_vars

(***************************************************************************)
(* The store only grows                                                    *)
(***************************************************************************)

\* C16: no step changes or removes a stored row (the store before the step
\* is a prefix of the store after it), and an insert for a rol that is
\* already stored leaves the store as it was.
C16_StoreOnlyGrows ==
    [][/\ Len(store') >= Len(store)
       /\ \A k \in 1..Len(store) : store'[k] = store[k]
       /\ \A r \in Runs :
            (pc[r] = "insert" /\ pc'[r] # "insert" /\ ExisteEnStore(sentencia[r].rol))
            => /\ store' = store
               /\ Last(calls'[r]) \in {"insert:23505", "insert:error"}]_vars

\* C16 witness: with two rows stored, an insert for a stored rol (its check
\* had failed) was rejected.
C16_Witness ==
    /\ Len(store) = 2
    /\ \E r \in Runs :
         /\ calls[r] # <<>>
         /\ calls[r][1] = "exists:error"
         /\ Last(calls[r]) = "insert:23505"

(***************************************************************************)
(* End to end: three results with the same rol                             *)
(***************************************************************************)

\* The site serves three rows with rol "A", each with a link to its own
\* detail page.
TresConRolA ==
    LET a == [rol |-> "A", fecha |-> "15/03/2024", tribunal |-> "CS",
              caratulado |-> "c", enlace |-> "u"]
    IN  <<a, a, a>>

InitE2E == InitCon({TresConRolA})

SpecE2E == InitE2E /\ [][Next]_vars

\* Run 1 has finished on its own, with a store, and none of its records
\* ended in an error.
SoloSinErrores ==
    /\ pc[1] = "done"
    /\ pc[2] = "idle"
    /\ supabase[1]
    /\ ~error[1]
    /\ stats[1].errores = 0

\* C17 as stated: after the three inputs with rol "A" the store holds
\* exactly 2 records and the statistics report 2 succeeded, 1 duplicate.
C17_TwoStoredOneDuplicate ==
    SoloSinErrores => /\ Len(store) = 2
                      /\ stats[1].exitosas = 2
                      /\ stats[1].duplicadas = 1

\* C17 amended: the store never holds more than one record with rol "A" and
\* no run counts more than one success; a run on its own without errors
\* ends with exactly 1 record, 1 succeeded and 2 duplicates.
C17_OneStoredTwoDuplicates ==
    /\ Len(store) <= 1
    /\ \A r \in Runs : stats[r].exitosas <= 1
    /\ SoloSinErrores => /\ Len(store) = 1
                         /\ store[1].rol = "A"
                         /\ stats[1].total_procesadas = 3
                         /\ stats[1].exitosas = 1
                         /\ stats[1].duplicadas = 2

\* C17 witness: the lone run has processed the three inputs.
C17_Witness ==
    /\ SoloSinErrores
    /\ stats[1].total_procesadas = 3
    /\ Len(store) = 1
    /\ stats[1].duplicadas = 2

(***************************************************************************)
(* Empty text for the embedding                                            *)
(***************************************************************************)

\* C18: the embedding provider is called only with a non-empty text: a
\* record whose text for the embedding is empty never waits on the provider,
\* has no provider call in its log and carries no vector, in the run and in
\* the store.
C18_EmptyTextSkipsEmbedding ==
    /\ \A r \in Runs :
         (pc[r] \in {"embed", "insert", "delay"} /\ TextoParaEmbedding(sentencia[r]) = "")
         => /\ pc[r] # "embed"
            /\ ~Hizo(r, "embed:ok")
            /\ ~Hizo(r, "embed:error")
            /\ sentencia[r].embeddings = "null"
    /\ \A k \in 1..Len(store) :
         TextoParaEmbedding(store[k]) = "" => store[k].embeddings = "null"

\* C18 witness: with the provider enabled, a record without any text for
\* the embedding was stored without a call to the provider.
C18_Witness ==
    \E r \in Runs :
        /\ env.EMBEDDINGS
        /\ openai[r]
        /\ calls[r] = <<"exists:miss", "insert:ok">>
        /\ TextoParaEmbedding(Last(store)) = ""
        /\ Last(store).embeddings = "null"
        /\ stats[r].exitosas >= 1

(***************************************************************************)
(* processFecha: strict parsing with moment, rendering with toISOString    *)
(***************************************************************************)

\* A string is a sequence of one-character strings.
Digitos == {"0", "1", "2", "3", "4", "5", "6", "7", "8", "9"}

Valor(c) == CHOOSE n \in 0..9 : ToString(n) = c
Digito(n) == ToString(n)

\* The list formatos of processFecha, in its order.
Formatos ==
    << <<"D", "D", "/", "M", "M", "/", "Y", "Y", "Y", "Y">>,
       <<"D", "D", "-", "M", "M", "-", "Y", "Y", "Y", "Y">>,
       <<"Y", "Y", "Y", "Y", "-", "M", "M", "-", "D", "D">>,
       <<"D", "D", "/", "M", "M", "/", "Y", "Y">>,
       <<"D", "D", "-", "M", "M", "-", "Y", "Y">> >>

\* Strict mode: every token takes exactly its width in digits, every other
\* character of the format is matched literally, nothing is left over.
Coincide(texto, formato) ==
    /\ Len(texto) = Len(formato)
    /\ \A p \in 1..Len(formato) :
         IF formato[p] \in {"D", "M", "Y"} THEN texto[p] \in Digitos
         ELSE texto[p] = formato[p]

\* The number written by the digits of texto under the token letra, read
\* up to position p.
RECURSIVE Numero(_, _, _, _)
Numero(texto, formato, letra, p) ==
    IF p = 0 THEN 0
    ELSE IF formato[p] = letra
         THEN 10 * Numero(texto, formato, letra, p - 1) + Valor(texto[p])
         ELSE Numero(texto, formato, letra, p - 1)

\* moment's two-digit year: above 68 it is 19xx, else 20xx.
Anno(texto, formato) ==
    LET y == Numero(texto, formato, "Y", Len(formato))
    IN  IF Cardinality({p \in 1..Len(formato) : formato[p] = "Y"}) = 4 THEN y
        ELSE IF y > 68 THEN 1900 + y ELSE 2000 + y

Bisiesto(y) == (y % 4 = 0 /\ y % 100 # 0) \/ y % 400 = 0

DiasDelMes(y, m) ==
    IF m = 2 THEN (IF Bisiesto(y) THEN 29 ELSE 28)
    ELSE IF m \in {4, 6, 9, 11} THEN 30 ELSE 31

\* moment(texto, formato, true): the local date parsed, or invalid.
Moment(texto, formato) ==
    IF ~Coincide(texto, formato) THEN [valid |-> FALSE]
    ELSE LET y == Anno(texto, formato)
             m == Numero(texto, formato, "M", Len(formato))
             d == Numero(texto, formato, "D", Len(formato))
         IN  IF m \in 1..12 /\ d >= 1 /\ d <= DiasDelMes(y, m)
             THEN [valid |-> TRUE, y |-> y, m |-> m, d |-> d]
             ELSE [valid |-> FALSE]

Dos(n) == <<Digito(n \div 10), Digito(n % 10)>>
Cuatro(n) == Dos(n \div 100) \o Dos(n % 100)

\* "YYYY-MM-DD" of a calendar date.
FechaISO(y, m, d) == Cuatro(y) \o <<"-">> \o Dos(m) \o <<"-">> \o Dos(d)

\* The calendar day before y-m-d.
DiaAnterior(y, m, d) ==
    IF d > 1 THEN [y |-> y, m |-> m, d |-> d - 1]
    ELSE IF m > 1 THEN [y |-> y, m |-> m - 1, d |-> DiasDelMes(y, m - 1)]
    ELSE [y |-> y - 1, m |-> 12, d |-> 31]

\* Offsets from UTC, in hours, of the zone the process runs in (the code
\* sets none): west of UTC, UTC, east of UTC.
Zonas == {0 - 4, 0, 1}

\* fecha.toISOString(): the instant of local midnight of the parsed date,
\* written in UTC.
ToISOString(f, zona) ==
    LET dia == IF zona > 0 THEN DiaAnterior(f.y, f.m, f.d) ELSE [y |-> f.y, m |-> f.m, d |-> f.d]
        hora == IF zona > 0 THEN 24 - zona ELSE 0 - zona
    IN  FechaISO(dia.y, dia.m, dia.d) \o <<"T">> \o Dos(hora)
        \o <<":", "0", "0", ":", "0", "0", ".", "0", "0", "0", "Z">>

\* The for loop of processFecha from format k on.
RECURSIVE ProcessFechaDesde(_, _, _)
ProcessFechaDesde(fechaTexto, zona, k) ==
    IF k > Len(Formatos) THEN fechaTexto
    ELSE LET fecha == Moment(fechaTexto, Formatos[k])
         IN  IF fecha.valid THEN ToISOString(fecha, zona)
             ELSE ProcessFechaDesde(fechaTexto, zona, k + 1)

ProcessFecha(fechaTexto, zona) == ProcessFechaDesde(fechaTexto, zona, 1)

\* Date texts of a result row: day, month and year in both orders with
\* several separators and widths, a text that is no date, and no text.
Dias == {<<"1", "5">>, <<"3", "1">>, <<"0", "1">>, <<"5">>}
Meses == {<<"0", "3">>, <<"0", "2">>, <<"0", "1">>, <<"1", "3">>}
Annos == {<<"2", "0", "2", "4">>, <<"2", "4">>, <<"6", "9">>}
Separadores == {"/", "-", "."}

NoEsFecha == <<"n", "o", "t", "-", "a", "-", "d", "a", "t", "e">>

Fechas ==
    {d \o <<s>> \o m \o <<s>> \o a : d \in Dias, s \in Separadores, m \in Meses, a \in Annos}
    \cup {a \o <<s>> \o m \o <<s>> \o d : d \in Dias, s \in Separadores, m \in Meses, a \in Annos}
    \cup {NoEsFecha, <<>>}

InitFecha == InitPura([texto : Fechas, zona : Zonas])

\* Lines 471-474 of extractSentenceDetails: the fields of the sentencia the
\* date step writes.
ProcesarFecha ==
    /\ salida = <<>>
    /\ salida' = << [fecha |-> IF entrada.texto # <<>>
                               THEN ProcessFecha(entrada.texto, entrada.zona)
                               ELSE entrada.texto] >>
    /\ UNCHANGED entrada
    /\ Quieto

NextFecha == ProcesarFecha

SpecFecha == InitFecha /\ [][NextFecha]_vars

\* Format k is the first of formatos that parses texto.
Primero(texto, k) ==
    /\ Moment(texto, Formatos[k]).valid
    /\ \A j \in 1..(k - 1) : ~Moment(texto, Formatos[j]).valid

NingunFormato(texto) == \A k \in 1..Len(Formatos) : ~Moment(texto, Formatos[k]).valid

\* C19: the result of date normalization is the date parsed by the first
\* format that matches the whole string; "15/03/2024" and "2024-03-15"
\* both give the date 2024-03-15.
C19_FirstFormatDate ==
    Len(salida) = 1 =>
        /\ \A k \in 1..Len(Formatos) :
             Primero(entrada.texto, k)
             => LET f == Moment(entrada.texto, Formatos[k])
                IN  SubSeq(salida[1].fecha, 1, 10) = FechaISO(f.y, f.m, f.d)
        /\ entrada.texto \in { <<"1", "5", "/", "0", "3", "/", "2", "0", "2", "4">>,
                               <<"2", "0", "2", "4", "-", "0", "3", "-", "1", "5">> }
           => SubSeq(salida[1].fecha, 1, 10) = <<"2", "0", "2", "4", "-", "0", "3", "-", "1", "5">>

\* C20: a date text that matches no format is kept verbatim and the record
\* is flagged dateUnparsed = true.
C20_UnparsedFlagged ==
    (Len(salida) = 1 /\ entrada.texto # <<>> /\ NingunFormato(entrada.texto))
    => /\ salida[1].fecha = entrada.texto
       /\ "dateUnparsed" \in DOMAIN salida[1]
       /\ salida[1].dateUnparsed = TRUE

(***************************************************************************)
(* The counters                                                            *)
(***************************************************************************)

\* exitosas + duplicadas + errores of run r.
Contadas(r) == stats[r].exitosas + stats[r].duplicadas + stats[r].errores

\* C21: the outcome counters never add up to more than total_procesadas;
\* with a store, between two records they add up to it and to the
\* number of records finished, and after processResults has returned
\* total_procesadas is the number of results.
C21_CountersAddUp ==
    \A r \in Runs :
        /\ Contadas(r) <= stats[r].total_procesadas
        /\ stats[r].total_procesadas <= Len(resultados[r])
        /\ (supabase[r] /\ pc[r] = "loop")
           => /\ Contadas(r) = stats[r].total_procesadas
              /\ stats[r].total_procesadas = i[r]
        /\ (supabase[r] /\ pc[r] = "stats")
           => /\ stats[r].total_procesadas = Len(resultados[r])
              /\ Contadas(r) = stats[r].total_procesadas

\* C21 witness: processResults has returned after two records, one counted
\* as duplicate and one as error.
C21_Witness ==
    \E r \in Runs :
        /\ supabase[r]
        /\ pc[r] = "stats"
        /\ stats[r].total_procesadas = 2
        /\ stats[r].duplicadas = 1
        /\ stats[r].errores = 1

(***************************************************************************)
(* A failing existence check                                               *)
(***************************************************************************)

\* C22: a failed existence check reads as "not present": the step counts
\* nothing and raises nothing, the record starts extractSentenceDetails
\* exactly as after a miss, and it is not counted as a duplicate later.
C22_CheckFailureReadsAbsent ==
    [][\A r \in Runs :
         /\ (Llama(r) /\ Last(calls'[r]) = "exists:error")
            => /\ stats'[r] = stats[r]
               /\ error'[r] = error[r]
               /\ i'[r] = i[r]
               /\ pc'[r] = EmpiezaExtract(r, Actual(r)).pc
               /\ pc'[r] \in {"goto", "embed", "insert"}
               /\ sentencia'[r] = EmpiezaExtract(r, Actual(r)).sentencia
         /\ (Llama(r) /\ Hizo(r, "exists:error"))
            => stats'[r].duplicadas = stats[r].duplicadas]_vars

\* C22 witness: the check failed and the record went through the detail
\* fetch, the embedding and the insert.
C22_Witness ==
    \E r \in Runs :
        /\ calls[r] = <<"exists:error", "fetch:ok", "embed:ok", "insert:ok">>
        /\ stats[r].duplicadas = 0
        /\ stats[r].errores = 0
        /\ stats[r].exitosas = 1

(***************************************************************************)
(* The end of run(): browser and exception                                 *)
(***************************************************************************)

\* run() of r is between the launch of the browser and the finally block.
Lanzado(r) ==
    pc[r] \in {"navigate", "filters", "search", "loop", "check", "goto", "embed",
               "insert", "delay", "stats"}

\* C23: while run() works the browser it launched is open; when run() has
\* finished the browser is closed (there is none only when the launch
\* itself threw), and the caller sees an exception exactly when the main
\* process threw one: the handler answers 500 then, 200 otherwise.
C23_BrowserClosedAndRethrown ==
    \A r \in Runs :
        /\ Lanzado(r) => browser[r] = "open" /\ ~error[r]
        /\ pc[r] = "done"
           => /\ browser[r] \in {"closed", "null"}
              /\ browser[r] = "null" => error[r]
              /\ error[r] <=> response[r] = "500"
              /\ ~error[r] <=> response[r] = "200"
        /\ pc[r] # "done" => response[r] = "none"

\* C23 witness: the search threw with the browser open; the browser was
\* closed and the caller got the exception.
C23_Witness ==
    \E r \in Runs :
        /\ pc[r] = "done"
        /\ error[r]
        /\ browser[r] = "closed"
        /\ response[r] = "500"
        /\ ~reported[r]
=============================================================================
